---- MODULE Spec2Model ----
(***************************************************************************)
(* Model of the on-demand scraping service (app.mjs and its pino-logging   *)
(* variant): request validation, the container run with its image-pull     *)
(* retry, and the HTTP response.                                           *)
(*                                                                         *)
(* Spec is one request from its arrival to its answer.  SpecCapture adds   *)
(* the stderr channel and multi-byte stdout chunks, SpecPair a second      *)
(* concurrent request, SpecBoot the startup ping, and SpecLate the events  *)
(* that arrive after the promise they were meant for has settled.          *)
(*                                                                         *)
(* JavaScript strings are sequences of one-character strings, so that      *)
(* startsWith / includes / template literals are computed, not assumed.    *)
(***************************************************************************)
EXTENDS Integers, Sequences, FiniteSets, TLC

\* ------------------------------------------------------------------ bounds
\* The engine reports the image-absent fault at most this often per request.
MaxImageAbsent == 2
\* The same, in the specifications that add a second request or late events.
MaxImageAbsentShort == 1
\* Number of data chunks a stdout channel delivers at most.
MaxChunks == 2
\* Exit codes reported by wait range over 0..MaxExitCode.
MaxExitCode == 2
\* Bytes written to the process's stderr.
MaxStderr == 1

\* ----------------------------------------------------------------- strings
\* String.prototype.startsWith
StartsWith(s, prefix) ==
    /\ Len(prefix) <= Len(s)
    /\ SubSeq(s, 1, Len(prefix)) = prefix

\* String.prototype.includes
Includes(s, sub) ==
    \E i \in 0..(Len(s) - Len(sub)) : SubSeq(s, i + 1, i + Len(sub)) = sub

RECURSIVE SplitFrom(_, _, _)
\* the non-empty "/"-separated segments of a path string
SplitFrom(s, cur, acc) ==
    IF s = <<>>
    THEN IF cur = <<>> THEN acc ELSE Append(acc, cur)
    ELSE IF Head(s) = "/"
         THEN SplitFrom(Tail(s), <<>>, IF cur = <<>> THEN acc ELSE Append(acc, cur))
         ELSE SplitFrom(Tail(s), Append(cur, Head(s)), acc)

Split(s) == SplitFrom(s, <<>>, <<>>)

RECURSIVE JoinSegs(_)
JoinSegs(segs) ==
    IF segs = <<>> THEN <<>> ELSE <<"/">> \o Head(segs) \o JoinSegs(Tail(segs))

\* the absolute path string of a segment list ("/" for the root)
Join(segs) == IF segs = <<>> THEN <<"/">> ELSE JoinSegs(segs)

RECURSIVE Normalize(_, _)
\* resolution of "." and ".." segments of an absolute path
Normalize(segs, acc) ==
    IF segs = <<>> THEN acc
    ELSE IF Head(segs) = <<".">> THEN Normalize(Tail(segs), acc)
    ELSE IF Head(segs) = <<".", ".">>
         THEN Normalize(Tail(segs),
                        IF acc = <<>> THEN acc ELSE SubSeq(acc, 1, Len(acc) - 1))
    ELSE Normalize(Tail(segs), Append(acc, Head(segs)))

\* path.resolve(base, p) for an absolute base: an absolute p replaces base
PathResolve(base, p) ==
    IF p # <<>> /\ Head(p) = "/"
    THEN Join(Normalize(Split(p), <<>>))
    ELSE Join(Normalize(Split(base) \o Split(p), <<>>))

\* -------------------------------------------------------------- filesystem
\* BASE_PATH_FOR_SCRIPTS = path.resolve(process.env.APP_PATH_FOR_SCRIPTS)
BASE_PATH_FOR_SCRIPTS == <<"/", "h", "/", "s">>

\* The directories of the host: the base directory /h/s with a job directory
\* /h/s/j in it, a sibling /h/s2 whose name starts with the base's name, and
\* an unrelated directory /h/o.
Dirs ==
    { <<>>, << <<"h">> >>, << <<"h">>, <<"s">> >>,
      << <<"h">>, <<"s">>, <<"j">> >>,
      << <<"h">>, <<"s", "2">> >>,
      << <<"h">>, <<"o">> >> }

\* Symbolic links inside the base directory: /h/s/l -> /h/o (outward) and
\* /h/s/i -> /h/s/j (inward).  Targets are real directories.
SymlinkAt(segs) ==
    IF segs = << <<"h">>, <<"s">>, <<"l">> >> THEN << <<"h">>, <<"o">> >>
    ELSE IF segs = << <<"h">>, <<"s">>, <<"i">> >> THEN << <<"h">>, <<"s">>, <<"j">> >>
    ELSE << <<"-">> >>

IsSymlink(segs) == SymlinkAt(segs) # << <<"-">> >>

RECURSIVE RealWalk(_, _)
\* component-wise symlink resolution; [ok |-> FALSE] is the thrown ENOENT
RealWalk(rest, cur) ==
    IF rest = <<>> THEN [ok |-> TRUE, segs |-> cur]
    ELSE LET nxt == Append(cur, Head(rest)) IN
         IF IsSymlink(nxt) THEN RealWalk(Tail(rest), SymlinkAt(nxt))
         ELSE IF nxt \in Dirs THEN RealWalk(Tail(rest), nxt)
         ELSE [ok |-> FALSE, segs |-> <<>>]

\* fs.realpathSync(p): the canonical path string, or a thrown error
RealpathSync(p) ==
    LET r == RealWalk(Split(p), <<>>) IN
    [ok |-> r.ok, path |-> IF r.ok THEN Join(r.segs) ELSE <<>>]

\* ------------------------------------------------------------- JS values
\* a value that is either undefined or a string
JsUndefined == [defined |-> FALSE, str |-> <<>>]
JsString(s) == [defined |-> TRUE, str |-> s]

\* JavaScript truthiness of such a value: undefined and '' are falsy
Truthy(v) == v.defined /\ v.str # <<>>

\* the two source files of the service
Variants == {"app.mjs", "part_001"}

\* -------------------------------------------------------------- validation
RequiredFieldName == <<"p", "r", "o", "g", "r", "a", "m", "D", "i", "r", "e", "c", "t", "o", "r", "y">>
InvalidDirectoryApp ==
    <<"E", "r", "r", "o", "r", ":", " ", "I", "n", "v", "a", "l", "i", "d", " ", "p", "r", "o", "g", "r", "a", "m", " ", "d", "i", "r", "e", "c", "t", "o", "r", "y", ",", " ", "w", "h", "a", "t", " ", "a", "r", "e", " ", "y", "o", "u", " ", "t", "r", "y", "i", "n", "g", " ", "t", "o", " ", "d", "o", " ", "M", "r", ".", " ", "H", "a", "c", "k", "e", "r", "?">>
InvalidDirectoryPino == <<"E", "r", "r", "o", "r", ":", " ", "I", "n", "v", "a", "l", "i", "d", " ", "p", "r", "o", "g", "r", "a", "m", " ", "d", "i", "r", "e", "c", "t", "o", "r", "y">>

\* `Error: ${field} is required`
RequiredMessage(field) ==
    <<"E", "r", "r", "o", "r", ":", " ">> \o field \o <<" ", "i", "s", " ", "r", "e", "q", "u", "i", "r", "e", "d">>

\* isValidPartialPath as it would be without the realpaths and their catch:
\* the prefix test on the unresolved path, which a missing path passes
IsValidPartialPathUnresolved(userInputPath) ==
    /\ userInputPath.defined
    /\ StartsWith(PathResolve(BASE_PATH_FOR_SCRIPTS, userInputPath.str),
                  BASE_PATH_FOR_SCRIPTS)

\* isValidPartialPath: both realpaths, then a string-prefix test; every thrown
\* error (a non-string argument of path.resolve, a missing path) gives false
IsValidPartialPath(userInputPath) ==
    LET realBaseDir == RealpathSync(BASE_PATH_FOR_SCRIPTS)
        realResolvedPath ==
            RealpathSync(PathResolve(BASE_PATH_FOR_SCRIPTS, userInputPath.str))
    IN  IF ~realBaseDir.ok THEN FALSE
        ELSE IF ~userInputPath.defined THEN FALSE
        ELSE IF ~realResolvedPath.ok THEN FALSE
        ELSE StartsWith(realResolvedPath.path, realBaseDir.path)

\* validateParams without the isValidPartialPath check
ValidateParamsNoSandbox(v, params) ==
    IF ~Truthy(params.programDirectory)
    THEN [isValid |-> FALSE, error |-> RequiredMessage(RequiredFieldName)]
    ELSE [isValid |-> TRUE, error |-> <<>>]

\* validateParams(params): {isValid, error}
ValidateParams(v, params) ==
    IF ~Truthy(params.programDirectory)
    THEN [isValid |-> FALSE, error |-> RequiredMessage(RequiredFieldName)]
    ELSE IF ~IsValidPartialPath(params.programDirectory)
    THEN [isValid |-> FALSE,
          error |-> IF v = "app.mjs" THEN InvalidDirectoryApp ELSE InvalidDirectoryPino]
    ELSE [isValid |-> TRUE, error |-> <<>>]

\* the request bodies sent to POST /start-scrapper-job
ProgramDirectories ==
    { JsUndefined,
      JsString(<<>>),
      JsString(<<"j">>),
      JsString(<<"i">>),
      JsString(<<"l">>),
      JsString(<<"x">>),
      JsString(<<".", ".", "/", "o">>),
      JsString(<<".", ".", "/", "s", "2">>),
      JsString(<<".", ".", "/", "s", "/", "j">>),
      JsString(<<"/", "h", "/", "o">>) }

RequestBodies == { [programDirectory |-> d] : d \in ProgramDirectories }

\* ------------------------------------------------------------------ errors
NoJson == [present |-> FALSE, hasMessage |-> FALSE, message |-> <<>>]
JsonBody(m) == [present |-> TRUE, hasMessage |-> TRUE, message |-> m]
JsonWithoutMessage == [present |-> TRUE, hasMessage |-> FALSE, message |-> <<>>]

\* an error object: statusCode 0 stands for an absent statusCode property
ErrorObject(n, sc, j, m) == [name |-> n, statusCode |-> sc, json |-> j, message |-> m]
NoError == ErrorObject("none", 0, NoJson, <<>>)

NoSuchImageText == <<"N", "o", " ", "s", "u", "c", "h", " ", "i", "m", "a", "g", "e", ":", " ", "p">>
NoSuchContainerText == <<"N", "o", " ", "s", "u", "c", "h", " ", "c", "o", "n", "t", "a", "i", "n", "e", "r">>

\* the shapes of error the container engine client reports
EngineErrors ==
    { ErrorObject("Error", 404, JsonBody(NoSuchImageText), NoSuchImageText),
      ErrorObject("Error", 404, JsonBody(NoSuchContainerText), NoSuchContainerText),
      ErrorObject("Error", 404, NoJson, <<"n", "o", "t", " ", "f", "o", "u", "n", "d">>),
      ErrorObject("Error", 404, JsonWithoutMessage, <<"u", "n", "e", "x", "p", "e", "c", "t", "e", "d">>),
      ErrorObject("Error", 500, JsonBody(NoSuchImageText), NoSuchImageText) }

\* the TypeError of reading `includes` of an undefined err.json.message
IncludesTypeError ==
    ErrorObject("TypeError", 0, NoJson,
                <<"C", "a", "n", "n", "o", "t", " ", "r", "e", "a", "d", " ", "p", "r", "o", "p", "e", "r", "t", "i", "e", "s", " ", "o", "f", " ", "u", "n", "d", "e", "f", "i", "n", "e", "d", " ", "(", "r", "e", "a", "d", "i", "n", "g", " ", "'", "i", "n", "c", "l", "u", "d", "e", "s", "'", ")">>)

NoSuchImageLiteral == <<"N", "o", " ", "s", "u", "c", "h", " ", "i", "m", "a", "g", "e">>

\* the catch condition reduced to err.statusCode === 404
ClassifyStatusOnly(err) == IF err.statusCode = 404 THEN "retry" ELSE "rethrow"

\* the condition of runDockerCommand's catch block:
\*   err.statusCode === 404 && err.json && err.json.message.includes('No such image')
\* "retry" when it holds, "rethrow" when it does not, "typeError" when its
\* evaluation throws
Classify(err) ==
    IF err.statusCode # 404 THEN "rethrow"
    ELSE IF ~err.json.present THEN "rethrow"
    ELSE IF ~err.json.hasMessage THEN "typeError"
    ELSE IF Includes(err.json.message, NoSuchImageLiteral) THEN "retry"
    ELSE "rethrow"

\* the error that leaves runDockerCommand when err is not retried
Rethrown(err) == IF Classify(err) = "typeError" THEN IncludesTypeError ELSE err

Digit(n) == <<"0", "1", "2", "3", "4", "5", "6", "7", "8", "9">>[n + 1]

RECURSIVE DecString(_)
\* the decimal rendering of a natural number in a template literal
DecString(n) == IF n < 10 THEN <<Digit(n)>> ELSE DecString(n \div 10) \o <<Digit(n % 10)>>

ExitCodeMessagePrefix ==
    <<"P", "u", "p", "p", "e", "t", "e", "e", "r", " ", "s", "c", "r", "i", "p", "t", " ", "e", "x", "e", "c", "u", "t", "i", "o", "n", " ", "f", "a", "i", "l", "e", "d", " ", "w", "i", "t", "h", " ", "e", "x", "i", "t", " ", "c", "o", "d", "e", " ">>

\* waitForContainerToFinish without its else branch
WaitNeverThrows(statusCode) == [threw |-> FALSE, err |-> NoError]

\* waitForContainerToFinish after container.wait() returned data.StatusCode:
\* returns normally on 0, throws an Error carrying the code otherwise
WaitForContainerToFinish(statusCode) ==
    IF statusCode = 0
    THEN [threw |-> FALSE, err |-> NoError]
    ELSE [threw |-> TRUE,
          err |-> ErrorObject("Error", 0, NoJson,
                              ExitCodeMessagePrefix \o DecString(statusCode))]

FailedMessagePrefix == <<"P", "u", "p", "p", "e", "t", "e", "e", "r", " ", "s", "c", "r", "i", "p", "t", " ", "e", "x", "e", "c", "u", "t", "i", "o", "n", " ", "f", "a", "i", "l", "e", "d", ":", " ">>

\* res.status(s).json({status: 'error', message})
ErrorResponse(s, message) == [status |-> s, error |-> TRUE, body |-> JsString(message)]

\* res.status(200).json(result)
ResultResponse(result) == [status |-> 200, error |-> FALSE, body |-> result]

\* the 500 response of startScrapperJob's catch block
FailedResponse(err) == ErrorResponse(500, FailedMessagePrefix \o err.message)

\* ------------------------------------------------------------ container job
\* The startup command is kept as a sequence of tokens (its parts and the
\* separators between them): nothing in the service looks inside a part.
ImageName == "ghcr.io/puppeteer/puppeteer:22.10.0"

CommandParts ==
    << "mkdir -p /home/pptruser/workdir",
       "cp -r /home/pptruser/app/{.,}* /home/pptruser/workdir/",
       "cd /home/pptruser/workdir",
       "npm ci",
       "node app.mjs" >>

RECURSIVE JoinWith(_, _)
\* Array.prototype.join
JoinWith(parts, sep) ==
    IF parts = <<>> THEN <<>>
    ELSE IF Len(parts) = 1 THEN <<Head(parts)>>
    ELSE <<Head(parts), sep>> \o JoinWith(Tail(parts), sep)

\* commandParts.join(' && ')
BashStartUpCmd == JoinWith(CommandParts, " && ")

\* a value interpolated into a template literal
TemplateString(v) ==
    IF v.defined THEN v.str ELSE <<"u", "n", "d", "e", "f", "i", "n", "e", "d">>

\* the fixed mount point and mode of the bind
BindSuffix ==
    <<":", "/", "h", "o", "m", "e", "/", "p", "p", "t", "r", "u", "s", "e", "r", "/", "a", "p", "p", ":", "r", "o">>

NoJobConfig == [bashStartUpCmd |-> <<>>, programDirectory |-> JsUndefined]

\* the jobConfig object runDockerCommand builds from its jobParams
JobConfigOf(jobParams) ==
    [bashStartUpCmd |-> BashStartUpCmd, programDirectory |-> jobParams.programDirectory]

\* the jobParams of the retried call as they would be if onFinished passed
\* on an object without the request's directory
RetryParamsLost(jobConfig) ==
    [bashStartUpCmd |-> jobConfig.bashStartUpCmd, programDirectory |-> JsUndefined]

\* the jobParams of the retried runDockerCommand call: onFinished passes on
\* the jobConfig that handleImageNotFoundThenRetry was given
RetryParams(jobConfig) == jobConfig

NoOptions ==
    [Image |-> "", Cmd |-> <<>>, Binds |-> <<>>, AutoRemove |-> FALSE,
     Init |-> FALSE, CapAdd |-> <<>>]

\* the options createDockerContainer passes to docker.createContainer
ContainerOptions(jobConfig) ==
    [Image |-> ImageName,
     Cmd |-> <<"bash", "-c", jobConfig.bashStartUpCmd>>,
     Binds |-> << TemplateString(jobConfig.programDirectory) \o BindSuffix >>,
     AutoRemove |-> TRUE,
     Init |-> TRUE,
     CapAdd |-> <<"SYS_ADMIN">>]

\* ------------------------------------------------------------------ streams
\* A chunk is a sequence of bytes: "a" and "b" are ASCII bytes, "0xC3" "0xA9"
\* is the two-byte UTF-8 encoding of U+00E9.
RECURSIVE BufferToString(_)
\* data.toString(): each chunk is decoded as UTF-8 on its own, and a byte that
\* is not part of a complete sequence within the chunk becomes U+FFFD
BufferToString(data) ==
    IF data = <<>> THEN <<>>
    ELSE IF Head(data) = "0xC3"
         THEN IF Len(data) >= 2 /\ data[2] = "0xA9"
              THEN <<"U+00E9">> \o BufferToString(SubSeq(data, 3, Len(data)))
              ELSE <<"U+FFFD">> \o BufferToString(Tail(data))
         ELSE IF Head(data) = "0xA9"
              THEN <<"U+FFFD">> \o BufferToString(Tail(data))
              ELSE <<Head(data)>> \o BufferToString(Tail(data))

RECURSIVE Concat(_)
\* the bytes of a sequence of chunks, in order
Concat(chunks) ==
    IF chunks = <<>> THEN <<>> ELSE Head(chunks) \o Concat(Tail(chunks))

\* ------------------------------------------------------------------- state
Requests == {"r1", "r2"}

VARIABLES
    variant,          \* which of the two source files is running
    crashed,          \* the process died of an uncaught exception
    boot,             \* the startup ping: "pinging", "connected", "exited"
    imageAbsentLimit, \* how often the engine reports the image absent, per request
    pc,               \* per request: the await its handler is suspended at
    params,           \* per request: req.body
    jobConfig,        \* per request: jobConfig of the current runDockerCommand
    log,              \* per request: engine calls issued and engine replies
    stdoutData,       \* per request: the buffer of collectStdout
    delivered,        \* per request: chunks the attached stdout channel delivered
    containerResult,  \* per request: what captureContainerResultFromLogs returned
    responses,        \* per request: the responses sent on res
    processStderr,    \* what was piped to process.stderr
    late              \* per request: the kinds of event that arrived after their promise settled

vars == <<variant, crashed, boot, imageAbsentLimit, pc, params, jobConfig, log, stdoutData, delivered,
          containerResult, responses, processStderr, late>>

\* a log entry: an engine call ("create", "start", "attach", "wait", "pull"),
\* or an engine reply, with the error or exit code it carried; a "create"
\* entry carries the options of the call
Ev(e) == [ev |-> e, err |-> NoError, code |-> -1, opts |-> NoOptions]
EvErr(e, err) == [ev |-> e, err |-> err, code |-> -1, opts |-> NoOptions]
EvCode(e, c) == [ev |-> e, err |-> NoError, code |-> c, opts |-> NoOptions]
EvCreate(o) == [ev |-> "create", err |-> NoError, code |-> -1, opts |-> o]

RECURSIVE Count(_, _)
Count(lg, e) ==
    IF lg = <<>> THEN 0
    ELSE (IF Head(lg).ev = e THEN 1 ELSE 0) + Count(Tail(lg), e)

\* r's log has an entry named e
HasEvent(r, e) == \E i \in 1..Len(log[r]) : log[r][i].ev = e

\* containers of a request that exist: created, and not yet removed by the
\* engine's AutoRemove on exit
LiveContainers(r) == Count(log[r], "created") - Count(log[r], "exited")

\* The engine reports the image-absent fault a bounded number of times.
EngineMayReport(r, err) ==
    (err.statusCode = 404 /\ err.json.hasMessage
        /\ Includes(err.json.message, NoSuchImageLiteral))
    => Count(log[r], "pull") < imageAbsentLimit

\* the process is running: docker.ping has not failed (process.exit(1)) and
\* no exception went uncaught
Alive == ~crashed /\ boot # "exited"

InitWith(arriving, b, limit) ==
    /\ variant \in Variants
    /\ crashed = FALSE
    /\ boot = b
    /\ imageAbsentLimit = limit
    /\ pc = [r \in Requests |-> IF r \in arriving THEN "idle" ELSE "absent"]
    /\ params = [r \in Requests |-> [programDirectory |-> JsUndefined]]
    /\ jobConfig = [r \in Requests |-> NoJobConfig]
    /\ log = [r \in Requests |-> <<>>]
    /\ stdoutData = [r \in Requests |-> <<>>]
    /\ delivered = [r \in Requests |-> <<>>]
    /\ containerResult = [r \in Requests |-> JsUndefined]
    /\ responses = [r \in Requests |-> <<>>]
    /\ processStderr = <<>>
    /\ late = [r \in Requests |-> {}]

\* one request arrives at a process whose startup ping has succeeded
Init == InitWith({"r1"}, "connected", MaxImageAbsent)

\* the variables no request handler writes
Globals == <<variant, boot, imageAbsentLimit, processStderr, late>>

\* the catch block of runDockerCommand for err, thrown with the log at lg,
\* up to the response of startScrapperJob when err is not retried:
\* handleImageNotFoundThenRetry issues docker.pull, anything else is rethrown
\* and rendered as a 500.  The try block's locals (containerResult, and the
\* stdoutData of its capture) are out of scope from here on, and the attached
\* channel is abandoned.
Catch(r, err, lg) ==
    /\ stdoutData' = [stdoutData EXCEPT ![r] = <<>>]
    /\ delivered' = [delivered EXCEPT ![r] = <<>>]
    /\ containerResult' = [containerResult EXCEPT ![r] = JsUndefined]
    /\ IF Classify(err) = "retry"
       THEN /\ pc' = [pc EXCEPT ![r] = "pull"]
            /\ log' = [log EXCEPT ![r] = Append(lg, Ev("pull"))]
            /\ UNCHANGED responses
       ELSE /\ pc' = [pc EXCEPT ![r] = "done"]
            /\ log' = [log EXCEPT ![r] = lg]
            /\ responses' = [responses EXCEPT ![r] = Append(@, FailedResponse(Rethrown(err)))]

\* POST /start-scrapper-job: validation, then runDockerCommand(params) up to
\* its first await (docker.createContainer)
StartScrapperJob(r, body) ==
    /\ Alive
    /\ pc[r] = "idle"
    /\ params' = [params EXCEPT ![r] = body]
    /\ LET validationResult == ValidateParams(variant, body) IN
       IF ~validationResult.isValid
       THEN /\ responses' = [responses EXCEPT
                                ![r] = Append(@, ErrorResponse(400, validationResult.error))]
            /\ pc' = [pc EXCEPT ![r] = "done"]
            /\ UNCHANGED <<log, jobConfig>>
       ELSE /\ jobConfig' = [jobConfig EXCEPT ![r] = JobConfigOf(body)]
            /\ log' = [log EXCEPT
                          ![r] = Append(@, EvCreate(ContainerOptions(JobConfigOf(body))))]
            /\ pc' = [pc EXCEPT ![r] = "create"]
            /\ UNCHANGED responses
    /\ UNCHANGED <<Globals, crashed, stdoutData, delivered, containerResult>>

\* docker.createContainer resolved: startDockerContainer issues container.start
CreateContainerOk(r) ==
    /\ Alive
    /\ pc[r] = "create"
    /\ log' = [log EXCEPT ![r] = @ \o <<Ev("created"), Ev("start")>>]
    /\ pc' = [pc EXCEPT ![r] = "start"]
    /\ UNCHANGED <<Globals, crashed, params, jobConfig, stdoutData, delivered,
                   containerResult, responses>>

\* docker.createContainer rejected
CreateContainerErr(r, err) ==
    /\ Alive
    /\ pc[r] = "create"
    /\ EngineMayReport(r, err)
    /\ Catch(r, err, Append(log[r], EvErr("createFailed", err)))
    /\ UNCHANGED <<Globals, crashed, params, jobConfig>>

\* container.start resolved: captureContainerResultFromLogs issues both attaches
StartOk(r) ==
    /\ Alive
    /\ pc[r] = "start"
    /\ log' = [log EXCEPT ![r] = @ \o <<Ev("started"), Ev("attach")>>]
    /\ pc' = [pc EXCEPT ![r] = "attach"]
    /\ UNCHANGED <<Globals, crashed, params, jobConfig, stdoutData, delivered,
                   containerResult, responses>>

\* container.start rejected
StartErr(r, err) ==
    /\ Alive
    /\ pc[r] = "start"
    /\ EngineMayReport(r, err)
    /\ Catch(r, err, Append(log[r], EvErr("startFailed", err)))
    /\ UNCHANGED <<Globals, crashed, params, jobConfig>>

\* both attaches resolved: stderr is piped, collectStdout starts with ''
AttachOk(r) ==
    /\ Alive
    /\ pc[r] = "attach"
    /\ log' = [log EXCEPT ![r] = Append(@, Ev("attached"))]
    /\ stdoutData' = [stdoutData EXCEPT ![r] = <<>>]
    /\ delivered' = [delivered EXCEPT ![r] = <<>>]
    /\ pc' = [pc EXCEPT ![r] = "capture"]
    /\ UNCHANGED <<Globals, crashed, params, jobConfig, containerResult, responses>>

\* an attach rejected: app.mjs logs the error and returns undefined, so
\* runDockerCommand goes on to container.wait; the variant rethrows
AttachErr(r, err) ==
    /\ Alive
    /\ pc[r] = "attach"
    /\ EngineMayReport(r, err)
    /\ IF variant = "app.mjs"
       THEN /\ log' = [log EXCEPT ![r] = @ \o <<EvErr("attachFailed", err), Ev("wait")>>]
            /\ containerResult' = [containerResult EXCEPT ![r] = JsUndefined]
            /\ pc' = [pc EXCEPT ![r] = "wait"]
            /\ UNCHANGED <<stdoutData, delivered, responses>>
       ELSE Catch(r, err, Append(log[r], EvErr("attachFailed", err)))
    /\ UNCHANGED <<Globals, crashed, params, jobConfig>>

\* stdoutStream 'data': stdoutData += data.toString()
StdoutData(r, data) ==
    /\ Alive
    /\ pc[r] = "capture"
    /\ Len(delivered[r]) < MaxChunks
    /\ delivered' = [delivered EXCEPT ![r] = Append(@, data)]
    /\ stdoutData' = [stdoutData EXCEPT ![r] = @ \o BufferToString(data)]
    /\ UNCHANGED <<Globals, crashed, pc, params, jobConfig, log, containerResult, responses>>

\* stdoutStream 'end': the capture resolves with the buffer, which is then
\* out of use; waitForContainerToFinish issues container.wait
StdoutEnd(r) ==
    /\ Alive
    /\ pc[r] = "capture"
    /\ containerResult' = [containerResult EXCEPT ![r] = JsString(stdoutData[r])]
    /\ stdoutData' = [stdoutData EXCEPT ![r] = <<>>]
    /\ log' = [log EXCEPT ![r] = @ \o <<Ev("end"), Ev("wait")>>]
    /\ pc' = [pc EXCEPT ![r] = "wait"]
    /\ UNCHANGED <<Globals, crashed, params, jobConfig, delivered, responses>>

\* stdoutStream 'error': the capture rejects
StdoutError(r, err) ==
    /\ Alive
    /\ pc[r] = "capture"
    /\ EngineMayReport(r, err)
    /\ Catch(r, err, Append(log[r], EvErr("streamError", err)))
    /\ UNCHANGED <<Globals, crashed, params, jobConfig>>

\* container.wait resolved with data.StatusCode: the container has exited and
\* AutoRemove removes it; 0 returns containerResult to startScrapperJob
WaitOk(r, statusCode) ==
    /\ Alive
    /\ pc[r] = "wait"
    /\ LET w == WaitForContainerToFinish(statusCode)
           lg == Append(log[r], EvCode("exited", statusCode))
       IN  IF w.threw
           THEN Catch(r, w.err, lg)
           ELSE /\ log' = [log EXCEPT ![r] = lg]
                /\ responses' = [responses EXCEPT
                                    ![r] = Append(@, ResultResponse(containerResult[r]))]
                /\ pc' = [pc EXCEPT ![r] = "done"]
                /\ UNCHANGED <<stdoutData, delivered, containerResult>>
    /\ UNCHANGED <<Globals, crashed, params, jobConfig>>

\* container.wait rejected
WaitErr(r, err) ==
    /\ Alive
    /\ pc[r] = "wait"
    /\ EngineMayReport(r, err)
    /\ Catch(r, err, Append(log[r], EvErr("waitFailed", err)))
    /\ UNCHANGED <<Globals, crashed, params, jobConfig>>

\* docker.pull's callback called with a stream: followProgress is started
PullStream(r) ==
    /\ Alive
    /\ pc[r] = "pull"
    /\ log' = [log EXCEPT ![r] = Append(@, Ev("pulling"))]
    /\ pc' = [pc EXCEPT ![r] = "progress"]
    /\ UNCHANGED <<Globals, crashed, params, jobConfig, stdoutData, delivered,
                   containerResult, responses>>

\* docker.pull's callback called with an error: the callback throws it.  A
\* callback run inside the docker.pull call throws into the try block, whose
\* catch rejects; a callback run later throws into the event loop, an
\* uncaught exception that ends the process.
PullError(r, err, inCall) ==
    /\ Alive
    /\ pc[r] = "pull"
    /\ log' = [log EXCEPT ![r] = Append(@, EvErr("pullFailed", err))]
    /\ IF inCall
       THEN /\ responses' = [responses EXCEPT ![r] = Append(@, FailedResponse(err))]
            /\ pc' = [pc EXCEPT ![r] = "done"]
            /\ UNCHANGED crashed
       ELSE /\ crashed' = TRUE
            /\ UNCHANGED <<pc, responses>>
    /\ UNCHANGED <<Globals, params, jobConfig, stdoutData, delivered, containerResult>>

\* onFinished(null) as it would be if it resolved at once and ran the retry
\* on its own: the pending request is answered before the retried run
PullFinishedDetached(r) ==
    /\ Alive
    /\ pc[r] = "progress"
    /\ LET jobParams == RetryParams(jobConfig[r]) IN
       /\ jobConfig' = [jobConfig EXCEPT ![r] = JobConfigOf(jobParams)]
       /\ log' = [log EXCEPT
                     ![r] = @ \o <<Ev("pulled"),
                                   EvCreate(ContainerOptions(JobConfigOf(jobParams)))>>]
    /\ responses' = [responses EXCEPT ![r] = Append(@, ResultResponse(JsUndefined))]
    /\ pc' = [pc EXCEPT ![r] = "create"]
    /\ UNCHANGED <<Globals, crashed, params, stdoutData, delivered, containerResult>>

\* onFinished(null): resolve(runDockerCommand(jobParams)), up to the first
\* await of that call (docker.createContainer)
PullFinished(r) ==
    /\ Alive
    /\ pc[r] = "progress"
    /\ LET jobParams == RetryParams(jobConfig[r]) IN
       /\ jobConfig' = [jobConfig EXCEPT ![r] = JobConfigOf(jobParams)]
       /\ log' = [log EXCEPT
                     ![r] = @ \o <<Ev("pulled"),
                                   EvCreate(ContainerOptions(JobConfigOf(jobParams)))>>]
    /\ pc' = [pc EXCEPT ![r] = "create"]
    /\ UNCHANGED <<Globals, crashed, params, stdoutData, delivered, containerResult,
                   responses>>

\* onFinished(err): app.mjs logs and returns, leaving the promise pending
\* for ever; the variant rejects it
PullFinishedErr(r, err) ==
    /\ Alive
    /\ pc[r] = "progress"
    /\ log' = [log EXCEPT ![r] = Append(@, EvErr("pullFailed", err))]
    /\ IF variant = "app.mjs"
       THEN /\ pc' = [pc EXCEPT ![r] = "hung"]
            /\ UNCHANGED responses
       ELSE /\ responses' = [responses EXCEPT ![r] = Append(@, FailedResponse(err))]
            /\ pc' = [pc EXCEPT ![r] = "done"]
    /\ UNCHANGED <<Globals, crashed, params, jobConfig, stdoutData, delivered,
                   containerResult>>

\* the chunks a stdout channel delivers
Chunks == { <<"a">>, <<"b">> }

\* the steps of one request, with the request bodies, engine errors, stdout
\* chunks and exit codes of the environment
Step(r, bodies, errors, chunks, codes) ==
    \/ \E body \in bodies : StartScrapperJob(r, body)
    \/ CreateContainerOk(r)
    \/ \E err \in errors : CreateContainerErr(r, err)
    \/ StartOk(r)
    \/ \E err \in errors : StartErr(r, err)
    \/ AttachOk(r)
    \/ \E err \in errors : AttachErr(r, err)
    \/ \E data \in chunks : StdoutData(r, data)
    \/ StdoutEnd(r)
    \/ \E err \in errors : StdoutError(r, err)
    \/ \E statusCode \in codes : WaitOk(r, statusCode)
    \/ \E err \in errors : WaitErr(r, err)
    \/ PullStream(r)
    \/ \E err \in errors, inCall \in BOOLEAN : PullError(r, err, inCall)
    \/ PullFinished(r)
    \/ \E err \in errors : PullFinishedErr(r, err)

Next == \E r \in Requests : Step(r, RequestBodies, EngineErrors, Chunks, 0..MaxExitCode)

Spec == Init /\ [][Next]_vars

\* ------------------------------------------------------- the stderr channel
\* the stdout and stderr streams of r's current container are attached
Attached(r) ==
    \/ pc[r] = "capture"
    \/ pc[r] = "wait" /\ log[r][Len(log[r]) - 1].ev = "end"

\* stderrStream.pipe(process.stderr): a chunk of the stderr channel is written
\* to the process's own stderr
StderrData(r, data) ==
    /\ Alive
    /\ Attached(r)
    /\ Len(processStderr) < MaxStderr
    /\ processStderr' = processStderr \o data
    /\ UNCHANGED <<variant, crashed, boot, imageAbsentLimit, pc, params, jobConfig, log, stdoutData,
                   delivered, containerResult, responses, late>>

\* the chunks a stderr channel delivers
StderrChunks == { <<"e">> }

\* stdout chunks that split a multi-byte character
SplitChunks == { <<"a">>, <<"0xC3">>, <<"0xA9">> }

CaptureBodies == { [programDirectory |-> d] : d \in {JsUndefined, JsString(<<"j">>)} }

CaptureErrors ==
    { ErrorObject("Error", 404, JsonBody(NoSuchImageText), NoSuchImageText),
      ErrorObject("Error", 404, NoJson, <<"n", "o", "t", " ", "f", "o", "u", "n", "d">>) }

NextCapture ==
    \E r \in Requests :
        \/ Step(r, CaptureBodies, CaptureErrors, SplitChunks, 0..MaxExitCode)
        \/ \E data \in StderrChunks : StderrData(r, data)

\* one request, with both channels of its containers delivering
SpecCapture == Init /\ [][NextCapture]_vars

\* ------------------------------------------------- two concurrent requests
PairChunks == { <<"a">> }

PairExitCodes == {0, 1}

NextPair ==
    \E r \in Requests : Step(r, CaptureBodies, CaptureErrors, PairChunks, PairExitCodes)

\* two requests in flight at once, their handlers interleaved at every await
SpecPair ==
    InitWith({"r1", "r2"}, "connected", MaxImageAbsentShort) /\ [][NextPair]_vars

\* -------------------------------------------------------- the startup ping
\* docker.ping() resolved: 'Connected to Docker' is logged
PingOk ==
    /\ Alive
    /\ boot = "pinging"
    /\ boot' = "connected"
    /\ UNCHANGED <<variant, crashed, imageAbsentLimit, pc, params, jobConfig, log, stdoutData, delivered,
                   containerResult, responses, processStderr, late>>

\* docker.ping() rejected: the catch logs the error and calls process.exit(1)
PingErr ==
    /\ Alive
    /\ boot = "pinging"
    /\ boot' = "exited"
    /\ UNCHANGED <<variant, crashed, imageAbsentLimit, pc, params, jobConfig, log, stdoutData, delivered,
                   containerResult, responses, processStderr, late>>

\* the module has been evaluated: the ping is in flight, and the file that
\* calls app.listen is already accepting requests
InitBoot == InitWith({"r1"}, "pinging", MaxImageAbsent) /\ variant = "part_001"

NextBoot ==
    \/ PingOk
    \/ PingErr
    \/ \E r \in Requests : Step(r, CaptureBodies, CaptureErrors, PairChunks, PairExitCodes)

\* the process from its start, the ping and the request handler interleaved
SpecBoot == InitBoot /\ [][NextBoot]_vars

\* ------------------------------------------------------------- late events
\* stdoutStream 'error' as it would be if its rejection were delivered to the
\* request again: a second response
LateStdoutErrorRethrown(r, err) ==
    /\ Alive
    /\ HasEvent(r, "end") \/ HasEvent(r, "streamError")
    /\ "streamError" \notin late[r]
    /\ late' = [late EXCEPT ![r] = @ \cup {"streamError"}]
    /\ responses' = [responses EXCEPT ![r] = Append(@, FailedResponse(err))]
    /\ UNCHANGED <<variant, crashed, boot, imageAbsentLimit, pc, params, jobConfig, log, stdoutData,
                   delivered, containerResult, processStderr>>

\* stdoutStream 'error' on a channel whose capture has already resolved (by
\* 'end') or rejected: reject(err) on a settled promise does nothing; only
\* the first such event is recorded
LateStdoutError(r, err) ==
    /\ Alive
    /\ HasEvent(r, "end") \/ HasEvent(r, "streamError")
    /\ "streamError" \notin late[r]
    /\ late' = [late EXCEPT ![r] = @ \cup {"streamError"}]
    /\ UNCHANGED <<variant, crashed, boot, imageAbsentLimit, pc, params, jobConfig, log, stdoutData,
                   delivered, containerResult, responses, processStderr>>

\* followProgress calls onFinished again.  With an error it is logged (and
\* the variant's reject does nothing).  Without one,
\* resolve(runDockerCommand(jobParams)) is run: if the first call left the
\* promise pending (app.mjs, after an error) the request goes on with the
\* retried run; on a settled promise resolve does nothing, and the run it was
\* given has no way to the request's response.  A call that would change
\* nothing in the state is left out.
PullFinishedAgain(r, failed) ==
    /\ Alive
    /\ HasEvent(r, "pulling")
    /\ pc[r] # "progress"
    /\ \/ (IF failed THEN "pullFinishedErr" ELSE "pullFinished") \notin late[r]
       \/ ~failed /\ pc[r] = "hung"
    /\ late' = [late EXCEPT
                   ![r] = @ \cup {IF failed THEN "pullFinishedErr" ELSE "pullFinished"}]
    /\ IF ~failed /\ pc[r] = "hung"
       THEN LET jobParams == RetryParams(jobConfig[r]) IN
            /\ jobConfig' = [jobConfig EXCEPT ![r] = JobConfigOf(jobParams)]
            /\ log' = [log EXCEPT
                          ![r] = @ \o <<Ev("pulled"),
                                        EvCreate(ContainerOptions(JobConfigOf(jobParams)))>>]
            /\ pc' = [pc EXCEPT ![r] = "create"]
       ELSE UNCHANGED <<pc, jobConfig, log>>
    /\ UNCHANGED <<variant, crashed, boot, imageAbsentLimit, params, stdoutData, delivered,
                   containerResult, responses, processStderr>>

NextLate ==
    \E r \in Requests :
        \/ Step(r, CaptureBodies, CaptureErrors, PairChunks, PairExitCodes)
        \/ \E err \in CaptureErrors : LateStdoutError(r, err)
        \/ \E failed \in BOOLEAN : PullFinishedAgain(r, failed)

\* one request, with engine events that arrive after the promise they were
\* meant for has settled
SpecLate == InitWith({"r1"}, "connected", MaxImageAbsentShort) /\ [][NextLate]_vars

\* ================================================================== claims
Received(r) == pc[r] \notin {"absent", "idle"}

HasStatus(r, s) == \E j \in 1..Len(responses[r]) : responses[r][j].status = s

\* C1: for one request docker.pull is issued at most once and create-container
\* at most twice, however the engine answers.
C1_AtMostOnePull ==
    \A r \in Requests :
        /\ Count(log[r], "pull") <= 1
        /\ Count(log[r], "create") <= 2

\* C2: start is issued only right after create returned a container, attach
\* only right after start returned, wait only right after the stdout channel
\* signalled end-of-stream, and create only first or right after a pull.
C2_StageOrder ==
    \A r \in Requests : \A i \in 1..Len(log[r]) :
        LET e == log[r][i].ev
            prev == IF i = 1 THEN "none" ELSE log[r][i - 1].ev
        IN  /\ e = "create" => prev \in {"none", "pulled"}
            /\ e = "start" => prev = "created"
            /\ e = "attach" => prev = "started"
            /\ e = "wait" => prev = "end"

\* whether the symlink-resolved base + p lies inside the symlink-resolved base
\* directory: the base's path segments are a prefix of the candidate's
ResolvesInside(p) ==
    LET base == RealWalk(Split(BASE_PATH_FOR_SCRIPTS), <<>>)
        cand == RealWalk(Split(PathResolve(BASE_PATH_FOR_SCRIPTS, p)), <<>>)
    IN  /\ base.ok
        /\ cand.ok
        /\ Len(base.segs) <= Len(cand.segs)
        /\ SubSeq(cand.segs, 1, Len(base.segs)) = base.segs

\* C3: a request with a programDirectory is rejected by validation exactly
\* when the resolved path does not lie inside the resolved base directory.
C3_SandboxExact ==
    \A r \in Requests :
        (Received(r) /\ Truthy(params[r].programDirectory))
        => (HasStatus(r, 400) <=> ~ResolvesInside(params[r].programDirectory.str))

\* the request fails validation: programDirectory missing or empty, or the
\* path rejected by the sandbox check
FailsValidation(r) ==
    \/ ~Truthy(params[r].programDirectory)
    \/ ~IsValidPartialPath(params[r].programDirectory)

\* C4: a request that fails validation is answered with 400 and an error
\* message, and no engine operation is ever issued for it.
C4_InvalidNoEngine ==
    \A r \in Requests :
        (Received(r) /\ FailsValidation(r))
        => /\ Len(responses[r]) = 1
           /\ responses[r][1].status = 400
           /\ responses[r][1].error
           /\ Truthy(responses[r][1].body)
           /\ log[r] = <<>>

\* C4 witness: a path rejected by the sandbox check was answered with 400
C4_Witness ==
    \E r \in Requests :
        /\ Received(r)
        /\ Truthy(params[r].programDirectory)
        /\ ~IsValidPartialPath(params[r].programDirectory)
        /\ HasStatus(r, 400)

\* C5: a job whose attach failed or whose stdout channel emitted an error is
\* never answered with 200.
C5_CaptureFailureFails ==
    \A r \in Requests :
        (HasEvent(r, "attachFailed") \/ HasEvent(r, "streamError"))
        => ~HasStatus(r, 200)

\* C6: once a pull has failed, the request has its 500 response.
C6_PullFailureAnswered ==
    \A r \in Requests : HasEvent(r, "pullFailed") => HasStatus(r, 500)

\* C7: at most one container created for a request exists at any time.
C7_AtMostOneContainer ==
    \A r \in Requests : LiveContainers(r) <= 1

\* C8: a pull is issued only right after a failed create-container, and after
\* a failure of start, attach, stream capture or wait nothing more is issued.
C8_PullOnlyFromCreating ==
    \A r \in Requests : \A i \in 1..Len(log[r]) :
        /\ log[r][i].ev = "pull" => (i > 1 /\ log[r][i - 1].ev = "createFailed")
        /\ log[r][i].ev \in {"startFailed", "attachFailed", "streamError", "waitFailed"}
           => (i = Len(log[r]) /\ HasStatus(r, 500))

\* a creation failure that is not image-absent: status code other than 404,
\* or no JSON body, or a message without 'No such image'
NotImageAbsent(err) ==
    \/ err.statusCode # 404
    \/ ~err.json.present
    \/ (err.json.hasMessage /\ ~Includes(err.json.message, NoSuchImageLiteral))

\* C9: after a creation failure that is not image-absent nothing more is
\* issued (no pull, no second create) and the request is answered 500 with
\* that error's message.
C9_OtherCreateFailureFails ==
    \A r \in Requests : \A i \in 1..Len(log[r]) :
        (log[r][i].ev = "createFailed" /\ NotImageAbsent(log[r][i].err))
        => /\ i = Len(log[r])
           /\ pc[r] = "done"
           /\ responses[r] =
                <<ErrorResponse(500, FailedMessagePrefix \o log[r][i].err.message)>>

\* C9 witness: a 404 creation failure without 'No such image' ended in a 500
C9_Witness ==
    \E r \in Requests :
        /\ log[r] # <<>>
        /\ log[r][Len(log[r])].ev = "createFailed"
        /\ log[r][Len(log[r])].err.statusCode = 404
        /\ NotImageAbsent(log[r][Len(log[r])].err)
        /\ HasStatus(r, 500)

\* C10: when wait reports a non-zero exit code N the request is answered with
\* a 500 whose message contains N and nothing more is issued; when wait
\* reports 0 the request is answered with 200.
C10_ExitCode ==
    \A r \in Requests : \A i \in 1..Len(log[r]) :
        log[r][i].ev = "exited"
        => /\ i = Len(log[r])
           /\ pc[r] = "done"
           /\ Len(responses[r]) = 1
           /\ IF log[r][i].code = 0
              THEN responses[r][1].status = 200
              ELSE /\ responses[r][1].status = 500
                   /\ Includes(responses[r][1].body.str, DecString(log[r][i].code))

\* C10 witness: stdout ended normally, wait reported a non-zero code, and the
\* request was answered 500
C10_Witness ==
    \E r \in Requests : \E i \in 3..Len(log[r]) :
        /\ log[r][i].ev = "exited"
        /\ log[r][i].code # 0
        /\ log[r][i - 2].ev = "end"
        /\ HasStatus(r, 500)

\* C11: every 200 response of a request whose container exited with 0 has as
\* its body exactly the text of all the chunks its stdout channel delivered up
\* to end-of-stream, in arrival order, and nothing the stderr channel
\* delivered.  Violated: in app.mjs a failed attach (C5) leaves the body
\* undefined, and in both files a character split over two chunks is decoded
\* chunk by chunk.
C11_BodyIsStdout ==
    \A r \in Requests :
        HasStatus(r, 200) =>
            /\ responses[r][1].body = JsString(BufferToString(Concat(delivered[r])))
            /\ \A data \in StderrChunks : ~Includes(responses[r][1].body.str, data)

\* the names of the entries of a log
EvNames(lg) == [i \in 1..Len(lg) |-> lg[i].ev]

\* the log of an attempt that runs to its exit without a fault
CleanAttempt ==
    <<"create", "created", "start", "started", "attach", "attached", "end", "wait", "exited">>

\* the log of a create that failed for the absent image, and of its pull
PullCycle == <<"create", "createFailed", "pull", "pulling", "pulled">>

RECURSIVE TextOf(_)
\* the text a stdout channel's chunks accumulate to
TextOf(chunks) ==
    IF chunks = <<>> THEN <<>> ELSE BufferToString(Head(chunks)) \o TextOf(Tail(chunks))

\* the container of r's last attempt exited with 0
ExitedZero(r) ==
    /\ log[r] # <<>>
    /\ log[r][Len(log[r])].ev = "exited"
    /\ log[r][Len(log[r])].code = 0

\* C12: a run whose create failed with the image-absent fault, whose pull
\* completed and whose retried attempt ran to exit code 0 is answered exactly
\* as a run whose first attempt ran to exit code 0: once, with a 200 whose
\* body is the text of the stdout chunks of the container that exited.
C12_RetryInvisible ==
    \A r \in Requests :
        (ExitedZero(r) /\ EvNames(log[r]) \in {CleanAttempt, PullCycle \o CleanAttempt})
            => responses[r] = <<ResultResponse(JsString(TextOf(delivered[r])))>>

C12_Witness ==
    \E r \in Requests :
        /\ ExitedZero(r)
        /\ EvNames(log[r]) = PullCycle \o CleanAttempt
        /\ delivered[r] # <<>>
        /\ HasStatus(r, 200)

\* C13: of two concurrent requests, a failure of one job at any stage never
\* keeps the other from being answered: a request that is waiting for its
\* answer and whose own pull did not fail is served by a running process.
\* Violated: a pull error thrown from the callback of docker.pull (C6) is an
\* uncaught exception, which ends the process under both requests.
C13_FailureStaysInJob ==
    \A r \in Requests :
        (Received(r) /\ responses[r] = <<>> /\ ~HasEvent(r, "pullFailed")) => ~crashed

\* C14: when the startup ping has failed and the process has exited, no
\* invocation of startScrapperJob has begun.  Violated: the ping is
\* asynchronous and app.listen is called without waiting for it, so a request
\* can be handled while the ping is in flight.
C14_NoRequestBeforeExit ==
    boot = "exited" => \A r \in Requests : ~Received(r)

\* the positions of the create-container calls in r's log
Creates(r) == { i \in 1..Len(log[r]) : log[r][i].ev = "create" }

\* C15: the bind of every container is the absolute path of the job
\* directory (the base directory joined with the request's programDirectory),
\* read-only at the fixed mount point.  Violated: the bind source is the
\* request's programDirectory as it was sent.
C15_BindIsAbsolute ==
    \A r \in Requests : \A i \in Creates(r) :
        log[r][i].opts.Binds =
            << PathResolve(BASE_PATH_FOR_SCRIPTS, params[r].programDirectory.str)
                   \o BindSuffix >>

\* C16: every create-container call of a request, the first and the one after
\* a pull, carries the same options, with the fixed image and the fixed
\* startup command, which is the same for every request.
C16_SameConfiguration ==
    \A r \in Requests : \A i \in Creates(r) :
        /\ log[r][i].opts.Image = ImageName
        /\ log[r][i].opts.Cmd = <<"bash", "-c", BashStartUpCmd>>
        /\ \A j \in Creates(r) : log[r][j].opts = log[r][i].opts

C16_Witness ==
    \E r \in Requests :
        /\ Cardinality(Creates(r)) = 2
        /\ HasEvent(r, "pulled")
        /\ \A i \in Creates(r) : log[r][i].opts.Binds # <<>>

\* resolving r's programDirectory makes fs.realpathSync throw
ResolutionThrows(r) ==
    /\ Truthy(params[r].programDirectory)
    /\ ~RealpathSync(PathResolve(BASE_PATH_FOR_SCRIPTS,
                                 params[r].programDirectory.str)).ok

LastAttempt(r) ==
    LET last == CHOOSE i \in Creates(r) : \A j \in Creates(r) : j <= i
    IN  SubSeq(EvNames(log[r]), last, Len(log[r]))

\* C18: a 200 has been sent only when the attempt of the most recently
\* created container ran without a fault: its stdout channel signalled
\* end-of-stream before wait was issued, and wait reported exit code 0.
\* Violated: in app.mjs a failed attach (C5) is followed by wait and a 200.
C18_OkOnlyAfterCleanAttempt ==
    \A r \in Requests :
        HasStatus(r, 200) =>
            /\ Creates(r) # {}
            /\ LastAttempt(r) = CleanAttempt
            /\ ExitedZero(r)

\* C19: a request has at most one response, with status 200, 400 or 500; a
\* 400 only for a request that failed validation; a 500 for every request
\* whose run ended in an error, and only for those; and no event arriving
\* late (a stream error after end-of-stream, a second call of onFinished)
\* adds a response.
C19_AtMostOneResponse ==
    \A r \in Requests :
        /\ Len(responses[r]) <= 1
        /\ \A j \in 1..Len(responses[r]) : responses[r][j].status \in {200, 400, 500}
        /\ HasStatus(r, 400) => (FailsValidation(r) /\ log[r] = <<>>)
        /\ (pc[r] = "done" /\ log[r] # <<>> /\ ~ExitedZero(r)) => HasStatus(r, 500)
        /\ HasStatus(r, 500) => (log[r] # <<>> /\ ~ExitedZero(r))

C19_Witness ==
    \E r \in Requests :
        /\ late[r] = {"streamError", "pullFinished"}
        /\ HasEvent(r, "end")
        /\ Len(responses[r]) = 1

====
